---- MODULE Spec2Model ----
(***************************************************************************)
(* Model of src/models/longitudinal_models/diffeo_vae.py: the two atlas    *)
(* models DVAE and DRVAE (construction, scale-and-square integration of a  *)
(* velocity field, isometry normalisation, atlas warping, atlas anchoring).*)
(*                                                                         *)
(* Tensors are functions over index tuples.  A tensor entry is an extended *)
(* rational <<n, d>>: d > 0 is the exact rational n/d in lowest terms,     *)
(* <<1,0>> is +inf, <<-1,0>> is -inf and <<0,0>> is NaN, with the IEEE-754 *)
(* rules for the special values (rounding and signed zeros are left out).  *)
(***************************************************************************)
EXTENDS Integers, Sequences, FiniteSets, TLC

\* ------------------------------------------------------------------------
\* Extended rational arithmetic (the host tensor runtime's floats)
\* ------------------------------------------------------------------------
RECURSIVE Gcd(_, _)
Gcd(a, b) == IF b = 0 THEN a ELSE Gcd(b, a % b)

Abs(n) == IF n < 0 THEN -n ELSE n

Sgn(n) == IF n < 0 THEN -1 ELSE IF n > 0 THEN 1 ELSE 0

NaN == <<0, 0>>

PInf == <<1, 0>>

NInf == <<-1, 0>>

\* n/d in lowest terms, d # 0
Q(n, d) ==
  LET g == Gcd(Abs(n), Abs(d))
      s == IF d < 0 THEN -1 ELSE 1
  IN  <<s * (n \div g), s * (d \div g)>>

I(n) == <<n, 1>>

Zero == <<0, 1>>

One == <<1, 1>>

IsNaN(a) == a = NaN

IsInf(a) == a[2] = 0 /\ a[1] # 0

IsFinite(a) == a[2] > 0

Neg(a) == <<-a[1], a[2]>>

Add(a, b) ==
  IF IsNaN(a) \/ IsNaN(b) THEN NaN
  ELSE IF IsInf(a) THEN (IF IsInf(b) /\ b # a THEN NaN ELSE a)
  ELSE IF IsInf(b) THEN b
  ELSE LET g == Gcd(a[2], b[2])
       IN  Q(a[1] * (b[2] \div g) + b[1] * (a[2] \div g), a[2] * (b[2] \div g))

Sub(a, b) == Add(a, Neg(b))

Mul(a, b) ==
  IF IsNaN(a) \/ IsNaN(b) THEN NaN
  ELSE IF IsInf(a) \/ IsInf(b)
       THEN (IF a[1] = 0 \/ b[1] = 0 THEN NaN ELSE <<Sgn(a[1]) * Sgn(b[1]), 0>>)
  ELSE LET g1 == Gcd(Abs(a[1]), b[2])
           g2 == Gcd(Abs(b[1]), a[2])
       IN  Q((a[1] \div g1) * (b[1] \div g2), (a[2] \div g2) * (b[2] \div g1))

\* x / 0 is +-inf for x # 0 and NaN for x = 0; inf / inf is NaN
Div(a, b) ==
  IF IsNaN(a) \/ IsNaN(b) THEN NaN
  ELSE IF IsInf(b) THEN (IF IsInf(a) THEN NaN ELSE Zero)
  ELSE IF IsInf(a) THEN <<a[1] * (IF b[1] < 0 THEN -1 ELSE 1), 0>>
  ELSE IF b[1] = 0 THEN <<Sgn(a[1]), 0>>
  ELSE Mul(a, Q(b[2], b[1]))

\* a > b, false as soon as one side is NaN
Gt(a, b) ==
  /\ ~IsNaN(a)
  /\ ~IsNaN(b)
  /\ a # b
  /\ IF IsInf(a) THEN a = PInf
     ELSE IF IsInf(b) THEN b = NInf
     ELSE a[1] * b[2] > b[1] * a[2]

Le(a, b) == ~IsNaN(a) /\ ~IsNaN(b) /\ ~Gt(a, b)

IsSquareInt(n) == \E r \in 0..n : r * r = n

ISqrt(n) == CHOOSE r \in 0..n : r * r = n

\* a is NaN, negative, +inf, or a rational with a rational square root
HasSqrt(a) ==
  IsFinite(a) /\ a[1] >= 0 => IsSquareInt(a[1]) /\ IsSquareInt(a[2])

\* torch.sqrt: NaN for a negative argument, +inf for +inf
Sqrt(a) ==
  IF IsNaN(a) \/ a[1] < 0 THEN NaN
  ELSE IF IsInf(a) THEN PInf
  ELSE <<ISqrt(a[1]), ISqrt(a[2])>>

\* 2 ** e as a float, e any integer
RECURSIVE Pow2(_)
Pow2(e) == IF e = 0 THEN One ELSE IF e > 0 THEN Mul(I(2), Pow2(e - 1))
           ELSE Div(Pow2(e + 1), I(2))

RECURSIVE SumSeq(_)
SumSeq(s) == IF s = <<>> THEN Zero ELSE Add(Head(s), SumSeq(Tail(s)))

RECURSIVE SetToSeq(_)
SetToSeq(S) == IF S = {} THEN <<>>
               ELSE LET e == CHOOSE e \in S : TRUE IN <<e>> \o SetToSeq(S \ {e})

\* the sum of the entries of the function f, of finite domain
SumOver(f) ==
  LET s == SetToSeq(DOMAIN f) IN SumSeq([i \in 1..Len(s) |-> f[s[i]]])

\* ------------------------------------------------------------------------
\* Bounds of the model
\* ------------------------------------------------------------------------
\* atlas tensors have 0..MaxDims spatial axes
MaxDims == 4

\* the downsampling_grid keyword argument ranges over -1..MaxDownsamplingArg
MaxDownsamplingArg == 3

\* number_of_time_points ranges over 0..MaxTimePoints
MaxTimePoints == 2

\* batches hold 1..MaxBatch elements
MaxBatch == 2

\* ------------------------------------------------------------------------
\* Tensors
\* ------------------------------------------------------------------------
\* a name not bound yet (an attribute not assigned, a local of a call not
\* made): the empty tuple, which no tensor, latent or number equals
Unset == <<>>

\* the index tuples of a tensor of the given shape (0-based, as in torch)
RECURSIVE Voxels(_)
Voxels(shape) ==
  IF shape = <<>> THEN {<<>>}
  ELSE {<<i>> \o q : i \in 0..(shape[1] - 1), q \in Voxels(Tail(shape))}

\* torch.linspace(lo, hi, steps)[j]; a single step yields lo
Linspace(lo, hi, steps, j) ==
  IF steps = 1 THEN lo
  ELSE Add(lo, Div(Mul(I(j), Sub(hi, lo)), I(steps - 1)))

\* the shapes of the atlas's spatial axes that are tried: n axes of size 2,
\* and two planar grids with a longer first axis
Shape(n, a) == [i \in 1..n |-> IF i = 1 THEN a ELSE 2]

GridShapes ==
  {Shape(n, 2) : n \in 0..MaxDims} \cup {<<3, 2>>, <<6, 2>>}

\* an image over the grid gs with one channel: a on the even rows, b on the odd
Image(gs, a, b) ==
  <<[p \in Voxels(gs) |-> IF gs = <<>> \/ p[1] % 2 = 0 THEN a ELSE b]>>

\* elementwise operations on a tensor indexed [batch][channel][voxel]
TAdd(A, B) ==
  [b \in DOMAIN A |-> [c \in DOMAIN A[b] |->
     [p \in DOMAIN A[b][c] |-> Add(A[b][c][p], B[b][c][p])]]]

TSub(A, B) ==
  [b \in DOMAIN A |-> [c \in DOMAIN A[b] |->
     [p \in DOMAIN A[b][c] |-> Sub(A[b][c][p], B[b][c][p])]]]

\* every entry multiplied by the scalar s
TScale(A, s) ==
  [b \in DOMAIN A |-> [c \in DOMAIN A[b] |->
     [p \in DOMAIN A[b][c] |-> Mul(A[b][c][p], s)]]]

\* every entry divided by the scalar s
TDiv(A, s) ==
  [b \in DOMAIN A |-> [c \in DOMAIN A[b] |->
     [p \in DOMAIN A[b][c] |-> Div(A[b][c][p], s)]]]

\* torch.isnan(A).any()
AnyNaN(A) ==
  \E b \in DOMAIN A : \E c \in DOMAIN A[b] : \E p \in DOMAIN A[b][c] :
     IsNaN(A[b][c][p])

\* torch.isnan(z).any() for a batch of vectors
AnyNaNVector(z) == \E b \in DOMAIN z : \E k \in DOMAIN z[b] : IsNaN(z[b][k])

\* torch.clamp(a, lo, hi) = min(max(a, lo), hi); NaN stays NaN
Clamp(a, lo, hi) ==
  IF IsNaN(a) THEN NaN
  ELSE LET m == IF Gt(lo, a) THEN lo ELSE a
       IN  IF Gt(m, hi) THEN hi ELSE m

\* ------------------------------------------------------------------------
\* The grid interpolator (support/diffeo_helper.py, support/images_helper.py:
\* not part of the sources at hand, modelled from its contract as clamped
\* multilinear interpolation, whose outputs are convex combinations of the
\* sampled values)
\* ------------------------------------------------------------------------
Floor(a) == a[1] \div a[2]

Min(a, b) == IF a < b THEN a ELSE b

\* linear interpolation along the axes k..n of the image f, the axes before
\* k fixed at the indices `at`; uc is the clamped coordinate
RECURSIVE Interpolate(_, _, _, _)
Interpolate(f, shape, uc, at) ==
  LET k == Len(at) + 1
      i0 == Floor(uc[k])
      i1 == Min(i0 + 1, shape[k] - 1)
      w1 == Sub(uc[k], I(i0))
  IN  IF k > Len(shape) THEN f[at]
      ELSE Add(Mul(Sub(One, w1), Interpolate(f, shape, uc, Append(at, i0))),
               Mul(w1, Interpolate(f, shape, uc, Append(at, i1))))

\* the value of the image f (over the index tuples of shape) at the real
\* index coordinate u: the coordinate is clamped to the image, and the
\* 2^n voxels around it are weighted multilinearly
Sample(f, shape, u) ==
  IF \E k \in 1..Len(shape) : IsNaN(u[k]) THEN NaN
  ELSE Interpolate(f, shape,
                   [k \in 1..Len(shape) |->
                      Clamp(u[k], Zero, I(shape[k] - 1))], <<>>)

\* batched_vector_interpolation_adaptive(vector, points, dsf): the vector
\* field sampled at the points, given in full-resolution coordinates
batched_vector_interpolation_adaptive(vector, points, dgs, dsf) ==
  [b \in DOMAIN vector |-> [c \in DOMAIN vector[b] |->
     [p \in Voxels(dgs) |->
        Sample(vector[b][c], dgs,
               [k \in 1..Len(dgs) |-> Div(points[b][k][p], I(dsf))])]]]

\* batched_scalar_interpolation_adaptive(source, diffeomorphism): the
\* sampling grid brought to the source's resolution, then the source sampled
\* at its coordinates
batched_scalar_interpolation_adaptive(source, diffeomorphism, gs, dgs) ==
  [b \in DOMAIN source |-> [ch \in DOMAIN source[b] |->
     [p \in Voxels(gs) |->
        Sample(source[b][ch], gs,
               [k \in 1..Len(gs) |->
                  Sample(diffeomorphism[b][k], dgs,
                         [j \in 1..Len(gs) |->
                            Div(I(p[j] * dgs[j]), I(gs[j]))])])]]]

VARIABLES
  pc,          \* "new", "failed", "ready", "loop", "done", "raised"
  args,        \* the arguments of __init__
  self,        \* the attributes of the model object
  error,       \* the exception that ended the last call, or "none"
  call,        \* the methods in progress, outermost first
  z_psi,       \* decode_s / absolute_decode: the latents
  z_s,
  v_star,      \* decode_s: the decoded momentum
  smoothed,    \* decode_s: v_ as batched_vector_smoothing returned it
  v_,          \* the velocity field handed to the integrator
  normalizer,  \* decode_s: the isometry scale, per batch element
  grid,        \* vector_field_integration: the identity grid
  x,           \* vector_field_integration: the sampling grid
  t,           \* vector_field_integration: the pass that is due, 0 outside it
  result,      \* what the last call returned
  observations \* encode: the batch of images

vars == <<pc, args, self, error, call, z_psi, z_s, v_star, smoothed, v_,
          normalizer, grid, x, t, result, observations>>

frame == <<z_psi, z_s, v_star, smoothed, v_, normalizer, grid, x, t, result,
           observations>>

Init ==
  /\ pc = "new"
  /\ args = Unset
  /\ self = Unset
  /\ error = "none"
  /\ call = <<>>
  /\ z_psi = Unset /\ z_s = Unset /\ v_star = Unset /\ v_ = Unset
  /\ smoothed = Unset
  /\ normalizer = Unset /\ grid = Unset /\ x = Unset /\ t = 0
  /\ result = Unset
  /\ observations = Unset

\* ------------------------------------------------------------------------
\* __init__ (identical in DVAE and DRVAE)
\* ------------------------------------------------------------------------
\* mutant: the keyword argument taken as the factor itself
DownsamplingGrid_NoPower(cfg) == I(cfg)

\* self.downsampling_grid = 2 ** kwargs['downsampling_grid']
DownsamplingGrid(cfg) == Pow2(cfg)

\* assert len(self.grid_size) in [2, 3]
ValidDimension(gs) == Len(gs) \in {2, 3}

\* assert self.downsampling_grid in [1, 2, 4]
ValidDownsampling(dsf) == dsf \in {I(1), I(2), I(4)}

\* tuple([gs // self.downsampling_grid for gs in self.grid_size])
DownsampledGridSize(gs, dsf) == [i \in 1..Len(gs) |-> gs[i] \div dsf]

\* self.dt = 1. / float(self.number_of_time_points - 1), ntp # 1
Dt(ntp) == Div(One, I(ntp - 1))

\* the attributes __init__ has assigned when it stops after `stage`:
\* 1 the dimension assertion, 2 the downsampling assertion, 3 the division
\* that sets dt, 4 the end of __init__ (networks_built: the encoders, the
\* decoder and the atlas parameter exist)
Attributes(a, stage) ==
  LET dsf == DownsamplingGrid(a.downsampling_grid)
  IN  [cls |-> a.cls,
       clamp_atlas |-> ~a.unclamp_atlas,
       tol |-> a.tol,
       isometry_constraint |-> a.isometry_constraint,
       nb_channels |-> Len(a.initial_atlas),
       grid_size |-> a.grid_size,
       latent_dimension |->
          IF stage >= 2 THEN a.latent_dimension ELSE Unset,
       latent_dimension_s |->
          IF stage >= 2 THEN a.latent_dimension - 1 ELSE Unset,
       latent_dimension_psi |-> IF stage >= 2 THEN 1 ELSE Unset,
       downsampling_grid |-> IF stage >= 2 THEN dsf ELSE Unset,
       downsampled_grid_size |->
          IF stage >= 3 THEN DownsampledGridSize(a.grid_size, dsf[1])
          ELSE Unset,
       number_of_time_points |->
          IF stage >= 3 THEN a.number_of_time_points ELSE Unset,
       dt |-> IF stage >= 4 THEN Dt(a.number_of_time_points) ELSE Unset,
       space_encoder |-> IF stage >= 4 THEN a.networks.space ELSE Unset,
       time_encoder |-> IF stage >= 4 THEN a.networks.time ELSE Unset,
       atlas |-> IF stage >= 4 THEN a.initial_atlas ELSE Unset,
       networks_built |-> stage >= 4]

\* DVAE(...) or DRVAE(...): a holds data_statistics[0] (initial_atlas, over
\* grid_size), latent_dimension, the keyword arguments, and the networks the
\* factories build
Construct(a) ==
  /\ pc = "new"
  /\ args' = a
  /\ IF ~ValidDimension(a.grid_size)
     THEN /\ self' = Attributes(a, 1)
          /\ error' = "AssertionError: Restricted to dimensions 2 and 3"
          /\ pc' = "failed"
     ELSE IF ~ValidDownsampling(DownsamplingGrid(a.downsampling_grid))
     THEN /\ self' = Attributes(a, 2)
          /\ error' =
               "AssertionError: Only supports grid downsampling by 1, 2 and 4"
          /\ pc' = "failed"
     ELSE IF a.number_of_time_points = 1
     THEN /\ self' = Attributes(a, 3)
          /\ error' = "ZeroDivisionError: float division by zero"
          /\ pc' = "failed"
     ELSE /\ self' = Attributes(a, 4)
          /\ error' = "none"
          /\ pc' = "ready"
  /\ UNCHANGED <<call, frame>>

\* ------------------------------------------------------------------------
\* vector_field_integration (identical in DVAE and DRVAE)
\* ------------------------------------------------------------------------
\* mutant: the voxel indices of the downsampled grid as coordinates
IdentityGrid_Arange(bts, gs, dgs) ==
  [b \in 1..bts |-> [c \in 1..Len(gs) |-> [p \in Voxels(dgs) |-> I(p[c])]]]

\* grid: meshgrid of linspace(0, elt - 1, delt) per axis, repeated per batch
IdentityGrid(bts, gs, dgs) ==
  [b \in 1..bts |-> [c \in 1..Len(gs) |-> [p \in Voxels(dgs) |->
     Linspace(Zero, I(gs[c] - 1), dgs[c], p[c])]]]

\* x = grid.clone() + v_ / float(2 ** ntp)
InitialX(g, v, ntp) == TAdd(g, TDiv(v, Pow2(ntp)))

\* mutant: the absolute position interpolated instead of the displacement
StepX_Absolute(xx, g, dt, dgs, dsf) ==
  TAdd(xx, TScale(batched_vector_interpolation_adaptive(xx, xx, dgs, dsf),
                  dt))

\* x += self.dt * batched_vector_interpolation_adaptive(x - grid, x, dsf)
StepX(xx, g, dt, dgs, dsf) ==
  TAdd(xx, TScale(batched_vector_interpolation_adaptive(TSub(xx, g), xx,
                                                        dgs, dsf), dt))

\* mutant: the loop body without its assertion
NanInGrid_Unchecked(xx) == FALSE

\* the assertion of the loop body fails
NanInGrid(xx) == AnyNaN(xx)

\* mutant: range(1, number_of_time_points), one pass short
LoopContinues_OneShort(tt, ntp) == tt < ntp

\* for t in range(1, self.number_of_time_points + 1): one more pass is due
LoopContinues(tt, ntp) == tt <= ntp

\* the entry of vector_field_integration, up to the loop
EnterIntegration(v) ==
  LET gs == self.grid_size
      dgs == self.downsampled_grid_size
      g == IdentityGrid(Len(v), gs, dgs)
  IN  /\ v_' = v
      /\ grid' = g
      /\ x' = InitialX(g, v, self.number_of_time_points)
      /\ t' = 1
      /\ pc' = "loop"

\* model.vector_field_integration(v): a direct call
VectorFieldIntegration(v) ==
  /\ pc = "ready"
  /\ call' = <<"vector_field_integration">>
  /\ EnterIntegration(v)
  /\ UNCHANGED <<args, self, error, z_psi, z_s, v_star, smoothed, normalizer,
                 result, observations>>

\* one pass of the loop body: the update of x, then its assertion
IntegrationStep ==
  /\ pc = "loop"
  /\ LoopContinues(t, self.number_of_time_points)
  /\ LET nx == StepX(x, grid, self.dt, self.downsampled_grid_size,
                     self.downsampling_grid[1])
     IN  /\ x' = nx
         /\ IF NanInGrid(nx)
            THEN /\ pc' = "raised"
                 /\ error' = "AssertionError: NaN detected in grid during integration step"
                 /\ t' = t
            ELSE /\ pc' = "loop"
                 /\ error' = error
                 /\ t' = t + 1
  /\ UNCHANGED <<args, self, call, z_psi, z_s, v_star, smoothed, v_, normalizer,
                 grid, result, observations>>

\* ------------------------------------------------------------------------
\* decode_s, absolute_decode, apply_diffeomorphism (identical in both classes)
\* ------------------------------------------------------------------------
\* latent_norm_squared = torch.sum(z.view(bts, -1) ** 2, dim=1)
LatentNormSquared(z) ==
  [b \in DOMAIN z |-> SumSeq([k \in DOMAIN z[b] |-> Mul(z[b][k], z[b][k])])]

\* torch.sum(v_ * v_star, dim=tuple(range(1, dim + 2)))
FieldEnergy(v, vs) ==
  [b \in DOMAIN v |->
     SumSeq([c \in DOMAIN v[b] |->
        SumOver([p \in DOMAIN v[b][c] |-> Mul(v[b][c][p], vs[b][c][p])])])]

\* mutant: the ratio taken without its square root
Normalizer_NoRoot(lns, vns, tol) ==
  [b \in DOMAIN lns |->
     IF Gt(lns[b], tol) THEN Div(lns[b], vns[b]) ELSE Zero]

\* torch.where(latent_norm_squared > tol,
\*             torch.sqrt(latent_norm_squared / v_norm_squared), 0.0)
Normalizer(lns, vns, tol) ==
  [b \in DOMAIN lns |->
     IF Gt(lns[b], tol) THEN Sqrt(Div(lns[b], vns[b])) ELSE Zero]

\* v_ = v_ * normalizer, the normalizer expanded over a batch element
Rescale(v, nz) ==
  [b \in DOMAIN v |-> [c \in DOMAIN v[b] |->
     [p \in DOMAIN v[b][c] |-> Mul(v[b][c][p], nz[b])]]]

\* the square roots decode_s takes on these inputs are rational
RootsAreRational(zs, vs, v) ==
  self.isometry_constraint =>
    \A b \in DOMAIN zs :
       Gt(LatentNormSquared(zs)[b], self.tol) =>
          HasSqrt(Div(LatentNormSquared(zs)[b], FieldEnergy(v, vs)[b]))

\* decode_s(z_psi, z) up to its call of vector_field_integration; vs is what
\* decoder_s returns on the latents and v what batched_vector_smoothing
\* returns on vs
EnterDecodeS(zp, zs, vs, v, callers) ==
  LET nz == Normalizer(LatentNormSquared(zs), FieldEnergy(v, vs), self.tol)
      vn == IF self.isometry_constraint THEN Rescale(v, nz) ELSE v
  IN  /\ z_psi' = zp
      /\ z_s' = zs
      /\ v_star' = vs
      /\ smoothed' = v
      /\ normalizer' = IF self.isometry_constraint THEN nz ELSE Unset
      /\ IF AnyNaN(vn)
         THEN /\ v_' = vn
              /\ error' = "AssertionError: NaN detected v"
              /\ pc' = "raised"
              /\ call' = callers
              /\ UNCHANGED <<grid, x, t>>
         ELSE /\ error' = error
              /\ call' = callers \o <<"vector_field_integration">>
              /\ EnterIntegration(vn)

\* model.decode_s(z_psi, z): a direct call
DecodeS(zp, zs, vs, v) ==
  /\ pc = "ready"
  /\ RootsAreRational(zs, vs, v)
  /\ EnterDecodeS(zp, zs, vs, v, <<"decode_s">>)
  /\ UNCHANGED <<args, self, result, observations>>

\* torch.split(z, [latent_dimension_psi, latent_dimension_s], dim=-1)
SplitPsi(z, npsi) == [b \in DOMAIN z |-> SubSeq(z[b], 1, npsi)]

SplitS(z, npsi) == [b \in DOMAIN z |-> SubSeq(z[b], npsi + 1, Len(z[b]))]

\* model.decode(z): absolute_decode up to the return of decode_s
Decode(z, vs, v) ==
  /\ pc = "ready"
  /\ RootsAreRational(SplitS(z, self.latent_dimension_psi), vs, v)
  /\ EnterDecodeS(SplitPsi(z, self.latent_dimension_psi),
                  SplitS(z, self.latent_dimension_psi), vs, v,
                  <<"decode", "absolute_decode", "decode_s">>)
  /\ UNCHANGED <<args, self, result, observations>>

\* mutant: the atlas repeated but never clamped
ReshapedAtlas_Unclamped(atlas, bts, clamp, tol) ==
  [b \in 1..bts |-> atlas]

\* self.atlas repeated along the batch axis, clamped when clamp_atlas is set
ReshapedAtlas(atlas, bts, clamp, tol) ==
  [b \in 1..bts |-> [ch \in DOMAIN atlas |-> [p \in DOMAIN atlas[ch] |->
     IF clamp THEN Clamp(atlas[ch][p], tol, Sub(One, tol))
     ELSE atlas[ch][p]]]]

\* apply_diffeomorphism(source, diffeomorphism): the error it raises, or
\* "none"
ApplyError(source, warped) ==
  IF AnyNaN(source) THEN "AssertionError: NaN detected in source"
  ELSE IF AnyNaN(warped) THEN "AssertionError: NaN detected in warped_source"
  ELSE "none"

\* absolute_decode after decode_s has returned field_star
FinishDecode(field_star) ==
  LET source == ReshapedAtlas(self.atlas, Len(z_psi), self.clamp_atlas,
                              self.tol)
      warped == batched_scalar_interpolation_adaptive(source, field_star,
                   self.grid_size, self.downsampled_grid_size)
      err == IF AnyNaN(field_star)
             THEN "AssertionError: NaN detected field_star"
             ELSE IF AnyNaNVector(z_psi)
             THEN "AssertionError: NaN detected z_psi"
             ELSE IF AnyNaNVector(z_s) THEN "AssertionError: NaN detected z_s"
             ELSE ApplyError(source, warped)
  IN  /\ error' = err
      /\ pc' = IF err = "none" THEN "done" ELSE "raised"
      /\ result' = IF err = "none" THEN warped ELSE Unset

\* the loop of vector_field_integration is over: return x, to the caller of
\* a direct call or into decode_s, which returns it as the field
IntegrationReturn ==
  /\ pc = "loop"
  /\ ~LoopContinues(t, self.number_of_time_points)
  /\ IF call[1] = "decode"
     THEN FinishDecode(x)
     ELSE /\ result' = x
          /\ pc' = "done"
          /\ error' = error
  /\ call' = <<call[1]>>
  /\ UNCHANGED <<args, self, z_psi, z_s, v_star, smoothed, v_, normalizer, grid,
                 x, t, observations>>

\* the caller takes the result or the exception; the model object stays
Finish ==
  /\ pc \in {"done", "raised"}
  /\ pc' = "ready"
  /\ error' = "none"
  /\ call' = <<>>
  /\ z_psi' = Unset /\ z_s' = Unset /\ v_star' = Unset /\ v_' = Unset
  /\ smoothed' = Unset
  /\ normalizer' = Unset /\ grid' = Unset /\ x' = Unset /\ t' = 0
  /\ result' = Unset
  /\ observations' = Unset
  /\ UNCHANGED <<args, self>>

\* ------------------------------------------------------------------------
\* encode, atlas_anchors, atlas_anchoring
\* ------------------------------------------------------------------------
\* An encoder network (networks/encoder_factory.py, not part of the sources
\* at hand): a deterministic function from a batch of images to one real
\* vector of out_dim entries per image, here affine in the image with the
\* weights net.even and net.odd on the voxels of even and odd index sum
RECURSIVE IndexSum(_)
IndexSum(p) == IF p = <<>> THEN 0 ELSE Head(p) + IndexSum(Tail(p))

Encoder(net, out_dim, images) ==
  [b \in DOMAIN images |-> [k \in 1..out_dim |->
     Add(net.bias,
         Mul(I(k),
             SumSeq([ch \in DOMAIN images[b] |->
                SumOver([p \in DOMAIN images[b][ch] |->
                           Mul(IF IndexSum(p) % 2 = 0 THEN net.even
                               ELSE net.odd,
                               images[b][ch][p])])])))]]

\* self.time_encoder(observations)
TimeEncoder(images) == Encoder(self.time_encoder, 1, images)

\* self.space_encoder(observations)
SpaceEncoder(images) ==
  Encoder(self.space_encoder, self.latent_dimension - 1, images)

\* DRVAE.atlas_anchors: the encoders on self.atlas.detach(), a batch of one
AtlasAnchors == <<TimeEncoder(<<self.atlas>>), SpaceEncoder(<<self.atlas>>)>>

\* mutant: the pre-latents returned without the anchors subtracted
AtlasAnchoring_Unanchored(zp, zs) == <<zp, zs>>

\* DRVAE.atlas_anchoring: the anchors subtracted, broadcast over the batch
AtlasAnchoring(zp, zs) ==
  LET anchors == AtlasAnchors
  IN  <<[b \in DOMAIN zp |-> [k \in DOMAIN zp[b] |->
           Sub(zp[b][k], anchors[1][1][k])]],
        [b \in DOMAIN zs |-> [k \in DOMAIN zs[b] |->
           Sub(zs[b][k], anchors[2][1][k])]]>>

\* DVAE.encode and DRVAE.encode
EncodeResult(obs) ==
  LET pre_z_psi == TimeEncoder(obs)
      pre_z_s == SpaceEncoder(obs)
  IN  IF self.cls = "DRVAE" THEN AtlasAnchoring(pre_z_psi, pre_z_s)
      ELSE <<pre_z_psi, pre_z_s>>

\* model.encode(observations)
Encode(observations_) ==
  /\ pc = "ready"
  /\ call' = <<"encode">>
  /\ result' = EncodeResult(observations_)
  /\ pc' = "done"
  /\ observations' = observations_
  /\ UNCHANGED <<args, self, error, z_psi, z_s, v_star, smoothed, v_,
                 normalizer, grid, x, t>>

\* ------------------------------------------------------------------------
\* The inputs that are tried
\* ------------------------------------------------------------------------
Quarter == Q(1, 4)

Half == Q(1, 2)

\* the networks the factories build: their weights are whatever the
\* initialisation made them
Networks ==
  {[time |-> [bias |-> I(1), even |-> I(1), odd |-> I(0)],
    space |-> [bias |-> I(0), even |-> I(1), odd |-> I(-1)]],
   [time |-> [bias |-> I(0), even |-> I(2), odd |-> I(1)],
    space |-> [bias |-> I(-1), even |-> I(0), odd |-> I(1)]]}

DefaultNetworks ==
  [time |-> [bias |-> I(1), even |-> I(1), odd |-> I(0)],
   space |-> [bias |-> I(0), even |-> I(1), odd |-> I(-1)]]

\* the field over dgs with `dim` components that is a at one entry (the
\* first: component 1 of voxel 0, or the last) and b at every other entry
Field(dim, dgs, last, a, b) ==
  LET at == IF last THEN [k \in 1..Len(dgs) |-> dgs[k] - 1]
            ELSE [k \in 1..Len(dgs) |-> 0]
      comp == IF last THEN dim ELSE 1
  IN  [c \in 1..dim |-> [p \in Voxels(dgs) |->
         IF c = comp /\ p = at THEN a ELSE b]]

\* batches of 1..MaxBatch elements, the first from S, the others from R
Batches(S, R) ==
  UNION {{<<e>> \o r : e \in S, r \in [1..(n - 1) -> R]} : n \in 1..MaxBatch}

\* every axis of the downsampled grid holds a point
NonEmpty(dgs) == \A k \in 1..Len(dgs) : dgs[k] >= 1

VelocityPairs == {<<Zero, Zero>>, <<I(4), I(4)>>, <<I(4), Zero>>,
                  <<NaN, Zero>>, <<I(-4), NaN>>, <<PInf, Zero>>}

VelocityFields(dim, dgs) ==
  {Field(dim, dgs, last, ab[1], ab[2]) :
     last \in BOOLEAN, ab \in VelocityPairs}

\* the fields of the batch elements after the first
OtherVelocityFields(dim, dgs) ==
  {Field(dim, dgs, last, ab[1], Zero) :
     last \in BOOLEAN, ab \in {<<Zero, Zero>>, <<NaN, Zero>>}}

\* ------------------------------------------------------------------------
\* Construction and direct integration
\* ------------------------------------------------------------------------
IntegrationArgs ==
  [cls : {"DVAE", "DRVAE"},
   grid_size : GridShapes,
   latent_dimension : {2},
   downsampling_grid : (-1)..MaxDownsamplingArg,
   number_of_time_points : 0..MaxTimePoints,
   unclamp_atlas : {FALSE},
   tol : {Quarter},
   isometry_constraint : {FALSE},
   networks : {DefaultNetworks}]

WithAtlas(a, lo, hi) ==
  [cls |-> a.cls, grid_size |-> a.grid_size,
   initial_atlas |-> Image(a.grid_size, lo, hi),
   latent_dimension |-> a.latent_dimension,
   downsampling_grid |-> a.downsampling_grid,
   number_of_time_points |-> a.number_of_time_points,
   unclamp_atlas |-> a.unclamp_atlas, tol |-> a.tol,
   isometry_constraint |-> a.isometry_constraint, networks |-> a.networks]

CallIntegration ==
  /\ pc = "ready"
  /\ NonEmpty(self.downsampled_grid_size)
  /\ \E v \in Batches(VelocityFields(Len(self.grid_size),
                                     self.downsampled_grid_size),
                      OtherVelocityFields(Len(self.grid_size),
                                          self.downsampled_grid_size)) :
        VectorFieldIntegration(v)

Next ==
  \/ \E a \in IntegrationArgs : Construct(WithAtlas(a, Half, Half))
  \/ CallIntegration
  \/ IntegrationStep
  \/ IntegrationReturn
  \/ Finish

Spec == Init /\ [][Next]_vars

\* ------------------------------------------------------------------------
\* Construction, decode_s and direct integration
\* ------------------------------------------------------------------------
FieldArgs ==
  [cls : {"DVAE", "DRVAE"},
   grid_size : {<<2, 2>>},
   latent_dimension : {2, 3},
   downsampling_grid : {0, 1},
   number_of_time_points : 0..MaxTimePoints,
   unclamp_atlas : {FALSE},
   tol : {Quarter},
   isometry_constraint : BOOLEAN,
   networks : {DefaultNetworks}]

\* one batch element of a decode: the latents, the momentum decoder_s
\* returns and the velocity batched_vector_smoothing returns (any field of
\* the right shape: both are networks or helpers outside these sources)
FieldCases(dim, dgs) ==
  [zpsi : {Zero},
   zs : {Zero, Half, I(2)},
   vs : {Field(dim, dgs, FALSE, One, Zero),
         Field(dim, dgs, FALSE, I(2), Zero),
         Field(dim, dgs, FALSE, Zero, Zero),
         Field(dim, dgs, FALSE, I(-1), Zero)},
   v : {Field(dim, dgs, FALSE, One, One),
        Field(dim, dgs, FALSE, Zero, Zero),
        Field(dim, dgs, TRUE, NaN, One)}]

\* the batch elements after the first
OtherCases(dim, dgs) ==
  {[zpsi |-> One, zs |-> Half,
    vs |-> Field(dim, dgs, FALSE, One, Zero),
    v |-> Field(dim, dgs, FALSE, I(4), Zero)],
   [zpsi |-> Zero, zs |-> Zero,
    vs |-> Field(dim, dgs, FALSE, One, Zero),
    v |-> Field(dim, dgs, TRUE, NaN, Zero)]}

\* the tensors of a batch of cases
PsiOf(cases) == [b \in DOMAIN cases |-> <<cases[b].zpsi>>]

SOf(cases) ==
  [b \in DOMAIN cases |->
     [k \in 1..(self.latent_dimension - 1) |-> cases[b].zs]]

LatentOf(cases) ==
  [b \in DOMAIN cases |->
     [k \in 1..self.latent_dimension |->
        IF k = 1 THEN cases[b].zpsi ELSE cases[b].zs]]

MomentumOf(cases) == [b \in DOMAIN cases |-> cases[b].vs]

VelocityOf(cases) == [b \in DOMAIN cases |-> cases[b].v]

CallDecodeS ==
  /\ pc = "ready"
  /\ NonEmpty(self.downsampled_grid_size)
  /\ \E cases \in Batches(FieldCases(Len(self.grid_size),
                                     self.downsampled_grid_size),
                          OtherCases(Len(self.grid_size),
                                     self.downsampled_grid_size)) :
        DecodeS(PsiOf(cases), SOf(cases), MomentumOf(cases),
                VelocityOf(cases))

FieldNext ==
  \/ \E a \in FieldArgs : Construct(WithAtlas(a, Half, Half))
  \/ CallIntegration
  \/ CallDecodeS
  \/ IntegrationStep
  \/ IntegrationReturn
  \/ Finish

FieldSpec == Init /\ [][FieldNext]_vars

\* ------------------------------------------------------------------------
\* Construction and decode
\* ------------------------------------------------------------------------
DecodeArgs ==
  [cls : {"DVAE", "DRVAE"},
   grid_size : {<<2, 2>>},
   latent_dimension : {2},
   downsampling_grid : {0, 1},
   number_of_time_points : 0..MaxTimePoints,
   unclamp_atlas : BOOLEAN,
   tol : {Quarter},
   isometry_constraint : BOOLEAN,
   networks : {DefaultNetworks}]

\* the atlas intensities: some below tol and some above 1 - tol, or a NaN
AtlasPairs == {<<I(-1), I(2)>>, <<Half, NaN>>}

DecodeCases(dim, dgs) ==
  [zpsi : {Zero, NaN},
   zs : {Zero, I(2)},
   vs : {Field(dim, dgs, FALSE, One, Zero)},
   v : {Field(dim, dgs, FALSE, One, One),
        Field(dim, dgs, TRUE, NaN, One)}]

CallDecode ==
  /\ pc = "ready"
  /\ NonEmpty(self.downsampled_grid_size)
  /\ \E cases \in Batches(DecodeCases(Len(self.grid_size),
                                      self.downsampled_grid_size),
                          OtherCases(Len(self.grid_size),
                                     self.downsampled_grid_size)) :
        Decode(LatentOf(cases), MomentumOf(cases), VelocityOf(cases))

DecodeNext ==
  \/ \E a \in DecodeArgs : \E ab \in AtlasPairs :
        Construct(WithAtlas(a, ab[1], ab[2]))
  \/ CallDecode
  \/ IntegrationStep
  \/ IntegrationReturn
  \/ Finish

DecodeSpec == Init /\ [][DecodeNext]_vars

\* ------------------------------------------------------------------------
\* Encoding
\* ------------------------------------------------------------------------
EncodeArgs ==
  [cls : {"DVAE", "DRVAE"},
   grid_size : {<<2, 2>>, <<3, 2>>, <<2, 2, 2>>},
   latent_dimension : {2, 3},
   downsampling_grid : {0},
   number_of_time_points : {MaxTimePoints},
   unclamp_atlas : {FALSE},
   tol : {Quarter},
   isometry_constraint : {FALSE},
   networks : Networks]

EncodeAtlasPairs == {<<Zero, Zero>>, <<Half, One>>, <<I(-1), I(2)>>}

\* the observations: the atlas itself and two other images
ObservationImages ==
  {self.atlas, Image(self.grid_size, One, Zero),
   Image(self.grid_size, I(3), I(3))}

CallEncode ==
  /\ pc = "ready"
  /\ \E obs \in Batches(ObservationImages, ObservationImages) : Encode(obs)

EncodeNext ==
  \/ \E a \in EncodeArgs : \E ab \in EncodeAtlasPairs :
        Construct(WithAtlas(a, ab[1], ab[2]))
  \/ CallEncode
  \/ Finish

EncodeSpec == Init /\ [][EncodeNext]_vars

\* ------------------------------------------------------------------------
\* Properties
\* ------------------------------------------------------------------------
\* the values a tensor holds
Entries(A) ==
  UNION {UNION {{A[b][c][p] : p \in DOMAIN A[b][c]} : c \in DOMAIN A[b]} :
           b \in DOMAIN A}

IsZero(a) == a = Zero

DirectIntegration == call = <<"vector_field_integration">>

\* C1: a direct call of vector_field_integration on an all-zero velocity
\* field, in a model with number_of_time_points >= 2, keeps x equal to the
\* identity grid through every pass of the loop and returns that grid.
C1_ZeroVelocityReturnsIdentity ==
  (/\ DirectIntegration
   /\ self.number_of_time_points >= 2
   /\ (\A a \in Entries(v_) : IsZero(a)))
  => /\ pc \in {"loop", "done"}
     /\ x = grid
     /\ pc = "done" => result = grid

\* C1 witness: such a call has returned, for a batch of two, after two passes
C1_Witness ==
  /\ DirectIntegration
  /\ pc = "done"
  /\ self.number_of_time_points >= 2
  /\ t = self.number_of_time_points + 1
  /\ Len(v_) = 2
  /\ (\A a \in Entries(v_) : IsZero(a))
  /\ self.downsampling_grid = I(2)

DimensionError == "AssertionError: Restricted to dimensions 2 and 3"

DownsamplingError ==
  "AssertionError: Only supports grid downsampling by 1, 2 and 4"

\* __init__ got past its two assertions
PastValidation ==
  /\ pc # "new"
  /\ ~(pc = "failed" /\ error \in {DimensionError, DownsamplingError})

\* C3 (as stated): construction gets past parameter validation iff the atlas
\* has 2 or 3 spatial dimensions and the configured downsampling_grid value
\* is one of 1, 2, 4.
C3_ConfiguredValueIsFactor ==
  pc # "new" =>
    (PastValidation <=> /\ Len(args.grid_size) \in {2, 3}
                        /\ args.downsampling_grid \in {1, 2, 4})

\* C3 (amended): construction gets past parameter validation iff the atlas
\* has 2 or 3 spatial dimensions and 2 ** downsampling_grid is one of 1, 2,
\* 4, that is the configured value is the exponent 0, 1 or 2; otherwise it
\* fails with an assertion error before any network is built.
C3_ConfiguredValueIsExponent ==
  pc # "new" =>
    /\ PastValidation <=> /\ Len(args.grid_size) \in {2, 3}
                          /\ args.downsampling_grid \in {0, 1, 2}
    /\ ~PastValidation =>
         /\ pc = "failed"
         /\ ~self.networks_built
         /\ error = IF Len(args.grid_size) \in {2, 3} THEN DownsamplingError
                    ELSE DimensionError
    /\ PastValidation =>
         self.downsampling_grid \in {I(1), I(2), I(4)}

\* C3 witness: a volume accepted with the configured value 2, the factor 4
C3_Witness ==
  /\ pc = "ready"
  /\ Len(args.grid_size) = 3
  /\ args.downsampling_grid = 2
  /\ self.downsampling_grid = I(4)
  /\ self.networks_built

\* C7 (as stated): in every constructed model the downsampling factor
\* divides every grid dimension: downsampled_grid_size[i] * factor equals
\* grid_size[i] on every axis.
C7_FactorDividesGrid ==
  pc = "ready" =>
    \A i \in 1..Len(self.grid_size) :
       self.downsampled_grid_size[i] * self.downsampling_grid[1]
         = self.grid_size[i]

\* the recurrence of the scale-and-square scheme, k passes from xk
RECURSIVE Recurrence(_, _, _, _, _, _)
Recurrence(k, xk, g, dt, dgs, dsf) ==
  IF k <= 0 THEN xk
  ELSE Recurrence(k - 1,
         TAdd(xk, TScale(batched_vector_interpolation_adaptive(
                            TSub(xk, g), xk, dgs, dsf), dt)),
         g, dt, dgs, dsf)

\* what a direct call that has returned must have returned
ReturnsRecurrence ==
  (DirectIntegration /\ pc = "done") =>
    LET ntp == self.number_of_time_points
        dgs == self.downsampled_grid_size
        g == [b \in 1..Len(v_) |-> [c \in 1..Len(dgs) |-> [p \in Voxels(dgs) |->
                Linspace(Zero, I(self.grid_size[c] - 1), dgs[c], p[c])]]]
    IN  /\ grid = g
        /\ result = Recurrence(ntp, TAdd(g, TDiv(v_, Pow2(ntp))), g,
                               self.dt, dgs, self.downsampling_grid[1])

Constructed == pc \notin {"new", "failed"}

\* C9 (as stated): vector_field_integration returns the recurrence
\* x_0 = grid + v / 2^ntp, x_{k+1} = x_k + dt * interp(x_k - grid, x_k)
\* applied ntp times, and dt = 1 / (ntp - 1) is finite and positive in every
\* model the constructor accepts.
C9_StepPositiveWheneverAccepted ==
  Constructed =>
    /\ ReturnsRecurrence
    /\ IsFinite(self.dt) /\ Gt(self.dt, Zero)
    /\ Mul(self.dt, I(self.number_of_time_points - 1)) = One

\* C9 (amended): vector_field_integration returns that recurrence applied
\* max(ntp, 0) times, the identity grid being the one it built; dt is
\* 1 / (ntp - 1), which is finite and positive when ntp >= 2 and negative
\* in the models accepted with ntp <= 0 (ntp = 1 is rejected).
C9_RecurrenceAndStep ==
  Constructed =>
    /\ ReturnsRecurrence
    /\ self.number_of_time_points # 1
    /\ Mul(self.dt, I(self.number_of_time_points - 1)) = One
    /\ self.number_of_time_points >= 2 =>
         IsFinite(self.dt) /\ Gt(self.dt, Zero)
    /\ self.number_of_time_points <= 0 => Gt(Zero, self.dt)

\* C9 witness: a direct call returned after two passes that moved the grid
C9_Witness ==
  /\ DirectIntegration
  /\ pc = "done"
  /\ self.number_of_time_points = 2
  /\ t = 3
  /\ result # grid
  /\ result # TAdd(grid, TDiv(v_, Pow2(2)))

IsInteger(a) == a[2] = 1

\* the identity grid has the downsampled shape and is the same in every
\* batch element
GridShapeOk ==
  /\ DOMAIN grid = 1..Len(v_)
  /\ \A b \in DOMAIN grid :
        /\ DOMAIN grid[b] = 1..Len(self.grid_size)
        /\ \A c \in DOMAIN grid[b] :
              DOMAIN grid[b][c] = Voxels(self.downsampled_grid_size)
        /\ grid[b] = grid[1]

\* C10 (as stated): the identity grid has the downsampled shape, is the same
\* in every batch element and has an integer coordinate at every point.
C10_IntegerCoordinates ==
  pc = "loop" => GridShapeOk /\ (\A a \in Entries(grid) : IsInteger(a))

\* C10 (amended): the identity grid has the downsampled shape, is the same
\* in every batch element, and its coordinate at index j of an axis of full
\* size g and downsampled size d is j * (g - 1) / (d - 1), or 0 when d = 1:
\* the axis spans 0..g-1, and the coordinates are integers when the factor
\* is 1 but not in general.
C10_LinspaceCoordinates ==
  pc = "loop" =>
    /\ GridShapeOk
    /\ \A b \in DOMAIN grid : \A c \in DOMAIN grid[b] :
         \A p \in DOMAIN grid[b][c] :
            LET g == self.grid_size[c]
                d == self.downsampled_grid_size[c]
            IN  /\ d = 1 => grid[b][c][p] = Zero
                /\ d > 1 => Mul(grid[b][c][p], I(d - 1)) = I(p[c] * (g - 1))
                /\ self.downsampling_grid = I(1) =>
                     grid[b][c][p] = I(p[c])

\* C10 witness: a grid of a batch of two with a coordinate that is no integer
C10_Witness ==
  /\ pc = "loop"
  /\ Len(grid) = 2
  /\ (\E a \in Entries(grid) : ~IsInteger(a))

VNanError == "AssertionError: NaN detected v"

GridNanError ==
  "AssertionError: NaN detected in grid during integration step"

\* the call in progress entered through decode_s
ThroughDecodeS == call # <<>> /\ call[1] \in {"decode_s", "decode"}

\* decode_s got past its assertion and called vector_field_integration
EnteredIntegration ==
  pc \in {"loop", "done"} \/ (pc = "raised" /\ error # VNanError)

\* the velocity field of the call in progress holds a NaN: the argument of
\* a direct call, or the smoothed field inside decode_s
VelocityHasNaN ==
  \/ DirectIntegration /\ AnyNaN(v_)
  \/ ThroughDecodeS /\ AnyNaN(smoothed)

\* the call ends in an assertion error, raised by decode_s before the
\* integration or by the first pass of the loop, and returns nothing
AbortsAtFirstNaN ==
  /\ pc \in {"loop", "raised"}
  /\ pc = "loop" =>
       /\ DirectIntegration
       /\ t = 1
       /\ LoopContinues(t, self.number_of_time_points)
  /\ pc = "raised" =>
       IF DirectIntegration THEN error = GridNanError /\ t = 1
       ELSE error = VNanError /\ Len(call) < 4 /\ call[Len(call)] = "decode_s"

\* C2 (as stated): a NaN anywhere in the velocity field makes the call abort
\* with an assertion error and never return, for every configured
\* number_of_time_points, through decode_s or directly, at the first pass
\* at which x holds a NaN.
C2_NaNAbortsForEveryTimePoints ==
  VelocityHasNaN => AbortsAtFirstNaN

\* C2 (amended): decode_s aborts on a NaN in the velocity field with its own
\* assertion before the integration starts, for every number_of_time_points;
\* a direct call of vector_field_integration aborts in the first pass of its
\* loop, no later pass being run, when number_of_time_points >= 1 (with
\* number_of_time_points <= 0 the loop has no pass and the call returns).
C2_NaNAbortsWhenLoopRuns ==
  (VelocityHasNaN /\ (ThroughDecodeS \/ self.number_of_time_points >= 1))
  => AbortsAtFirstNaN

\* C2 witness: a direct call aborted in its first pass on a NaN that only
\* the second batch element held
C2_Witness ==
  /\ DirectIntegration
  /\ pc = "raised"
  /\ error = GridNanError
  /\ t = 1
  /\ Len(v_) = 2
  /\ ~AnyNaN(<<v_[1]>>)
  /\ AnyNaN(<<v_[2]>>)

IsPositive(a) == IsFinite(a) /\ Gt(a, Zero)

EncodedAtlasBatch ==
  /\ pc = "done" /\ call = <<"encode">> /\ self.cls = "DRVAE"
  /\ \A b \in DOMAIN observations : observations[b] = self.atlas

\* C4: in DRVAE, with deterministic encoders of finite output, encode of a
\* batch whose every observation equals the atlas returns a psi component of
\* one entry and a spatial component of latent_dimension - 1 entries per
\* observation, every one of them zero.
C4_AtlasEncodesToZero ==
  EncodedAtlasBatch =>
    /\ DOMAIN result[1] = DOMAIN observations
    /\ DOMAIN result[2] = DOMAIN observations
    /\ \A b \in DOMAIN observations :
          /\ DOMAIN result[1][b] = 1..1
          /\ DOMAIN result[2][b] = 1..(self.latent_dimension - 1)
          /\ \A k \in DOMAIN result[1][b] : result[1][b][k] = Zero
          /\ \A k \in DOMAIN result[2][b] : result[2][b][k] = Zero

\* C4 witness: DRVAE encoded a batch of two copies of an atlas whose own
\* encodings are non-zero in the psi and in both spatial entries
C4_Witness ==
  /\ EncodedAtlasBatch
  /\ Len(observations) = 2
  /\ self.latent_dimension = 3
  /\ AtlasAnchors[1][1][1] # Zero
  /\ AtlasAnchors[2][1][1] # Zero
  /\ AtlasAnchors[2][1][2] # Zero

\* C5: with the isometry constraint on, once decode_s has rescaled the
\* field and passed its assertion: an element with latent_norm_sq > tol and
\* positive field_energy has scale sqrt(latent_norm_sq / field_energy), its
\* field is the smoothed field times the scale, and the energy of the
\* rescaled field against the equally rescaled momentum is latent_norm_sq;
\* an element with latent_norm_sq <= tol has scale 0 and an all-zero field.
C5_IsometryScaling ==
  (ThroughDecodeS /\ self.isometry_constraint /\ EnteredIntegration) =>
    \A b \in DOMAIN z_s :
       LET lns == LatentNormSquared(z_s)[b]
           energy == FieldEnergy(smoothed, v_star)[b]
           scale == normalizer[b]
       IN  /\ (Gt(lns, self.tol) /\ IsPositive(energy)) =>
                /\ IsPositive(scale)
                /\ Mul(Mul(scale, scale), energy) = lns
                /\ \A c \in DOMAIN v_[b] : \A p \in DOMAIN v_[b][c] :
                      v_[b][c][p] = Mul(smoothed[b][c][p], scale)
                /\ FieldEnergy(v_, Rescale(v_star, normalizer))[b] = lns
           /\ Le(lns, self.tol) =>
                /\ scale = Zero
                /\ (\A a \in Entries(<<v_[b]>>) : IsZero(a))

\* C5 witness: a batch whose first element is rescaled by 2 and whose
\* second, with a non-zero smoothed field, is zeroed
C5_Witness ==
  /\ ThroughDecodeS /\ self.isometry_constraint /\ pc = "done"
  /\ Len(z_s) = 2
  /\ Gt(LatentNormSquared(z_s)[1], self.tol)
  /\ IsPositive(FieldEnergy(smoothed, v_star)[1])
  /\ normalizer[1] = I(2)
  /\ Le(LatentNormSquared(z_s)[2], self.tol)
  /\ (\E a \in Entries(<<smoothed[2]>>) : ~IsZero(a))
  /\ normalizer[2] = Zero

InClampRange(a) == Le(self.tol, a) /\ Le(a, Sub(One, self.tol))

\* C6: with atlas clamping on (and tol <= 1/2), a decode that returns yields
\* one image per latent vector, over the atlas's channels and grid, whose
\* every value lies in [tol, 1 - tol] and is no NaN; the atlas parameter is
\* the one the model was built with.
C6_ClampedReconstruction ==
  (call = <<"decode">> /\ pc = "done" /\ self.clamp_atlas) =>
    /\ DOMAIN result = 1..Len(z_psi)
    /\ \A b \in DOMAIN result :
          /\ DOMAIN result[b] = 1..self.nb_channels
          /\ \A ch \in DOMAIN result[b] :
                DOMAIN result[b][ch] = Voxels(self.grid_size)
    /\ (\A a \in Entries(result) : InClampRange(a))
    /\ self.atlas = args.initial_atlas

\* C6 witness: a decode of two latent vectors returned, with clamping on, an
\* atlas that has values outside [tol, 1 - tol] and a grid that was moved
C6_Witness ==
  /\ call = <<"decode">> /\ pc = "done" /\ self.clamp_atlas
  /\ Len(z_psi) = 2
  /\ (\E a \in Entries(<<self.atlas>>) : ~InClampRange(a))
  /\ x # grid
  /\ self.downsampling_grid = I(2)

\* C8 (as stated): with the isometry constraint on, an element with
\* latent_norm_sq > tol and zero or negative field_energy never reaches the
\* integration with a NaN or non-finite scale: decode_s substitutes a finite
\* scale or aborts before vector_field_integration starts.
C8_DegenerateEnergyGuarded ==
  (ThroughDecodeS /\ self.isometry_constraint /\ EnteredIntegration) =>
    \A b \in DOMAIN z_s :
       (/\ Gt(LatentNormSquared(z_s)[b], self.tol)
        /\ Le(FieldEnergy(smoothed, v_star)[b], Zero))
       => IsFinite(normalizer[b])

====
